---------------------------- MODULE Spec2Model ----------------------------
(***************************************************************************)
(* Multi-objective contextual bandit (MO-LinUCB) of src/MOCB.py and the    *)
(* bisection simplex projection of src/misc.py.                            *)
(*                                                                         *)
(* Numbers.  The program computes in numpy float64.  The model computes    *)
(* in exact rational arithmetic: a real is a pair <<n, d>> with d > 0 in   *)
(* lowest terms.  Rounding of float64 is therefore not part of the model;  *)
(* division by zero, which numpy answers with inf / -inf / nan, is (see    *)
(* ExtDiv).  Python indexes from 0, the sequences below from 1.            *)
(***************************************************************************)
EXTENDS Integers, Sequences, FiniteSets, TLC

(***************************************************************************)
(* Exact rational arithmetic (stands for the float64 operations)           *)
(***************************************************************************)
Abs(n) == IF n < 0 THEN -n ELSE n

\* the sequence f with its entries evaluated (a function constructor alone
\* is evaluated anew at each application)
Vec(f) == f \o <<>>

RECURSIVE GCD(_, _)
GCD(a, b) == IF b = 0 THEN a ELSE GCD(b, a % b)

\* A LET definition is evaluated again at each of its uses, a parameter
\* once: intermediate results are passed on as parameters.
NormBy(n, d, g) ==
  IF n = 0 THEN <<0, 1>>
  ELSE IF d < 0 THEN <<(-n) \div g, (-d) \div g>>
  ELSE <<n \div g, d \div g>>

Norm(n, d) == NormBy(n, d, GCD(Abs(n), Abs(d)))

R(n) == <<n, 1>>

Zero == R(0)

One == R(1)

RNeg(a) == <<-a[1], a[2]>>

RAddBy(a, b, g) ==
  Norm(a[1] * (b[2] \div g) + b[1] * (a[2] \div g), (a[2] \div g) * b[2])

RAdd(a, b) == RAddBy(a, b, GCD(a[2], b[2]))

RSub(a, b) == RAdd(a, RNeg(b))

RMulBy(a, b, g1, g2) ==
  <<(a[1] \div g1) * (b[1] \div g2), (a[2] \div g2) * (b[2] \div g1)>>

RMul(a, b) ==
  IF a[1] = 0 \/ b[1] = 0 THEN Zero
  ELSE RMulBy(a, b, GCD(Abs(a[1]), b[2]), GCD(Abs(b[1]), a[2]))

RInv(a) == IF a[1] < 0 THEN <<-a[2], -a[1]>> ELSE <<a[2], a[1]>>

RDiv(a, b) == RMul(a, RInv(b))

\* a < b, decided on the continued-fraction expansions, so that no product
\* of two large numbers is formed
RECURSIVE RLess(_, _)
RLess(a, b) ==
  IF a[1] \div a[2] # b[1] \div b[2] THEN a[1] \div a[2] < b[1] \div b[2]
  ELSE IF b[1] % b[2] = 0 THEN FALSE
  ELSE IF a[1] % a[2] = 0 THEN TRUE
  ELSE RLess(<<b[2], b[1] % b[2]>>, <<a[2], a[1] % a[2]>>)

RLeq(a, b) == ~RLess(b, a)

RAbs(a) == <<Abs(a[1]), a[2]>>

RMax(a, b) == IF RLess(a, b) THEN b ELSE a

RMin(a, b) == IF RLess(b, a) THEN b ELSE a

RECURSIVE Pow2(_)
Pow2(n) == IF n = 0 THEN 1 ELSE 2 * Pow2(n - 1)

(***************************************************************************)
(* Vectors: sequences of rationals                                         *)
(***************************************************************************)
RECURSIVE VSum(_)
VSum(v) == IF v = <<>> THEN Zero ELSE RAdd(Head(v), VSum(Tail(v)))

RECURSIVE VMin(_)
VMin(v) == IF Len(v) = 1 THEN v[1] ELSE RMin(Head(v), VMin(Tail(v)))

RECURSIVE VMax(_)
VMax(v) == IF Len(v) = 1 THEN v[1] ELSE RMax(Head(v), VMax(Tail(v)))

VDot(a, b) == VSum(Vec([i \in 1..Len(a) |-> RMul(a[i], b[i])]))

VAdd(a, b) == Vec([i \in 1..Len(a) |-> RAdd(a[i], b[i])])

VScale(c, a) == Vec([i \in 1..Len(a) |-> RMul(c, a[i])])

\* np.maximum(v - x, 0)
ClipBelow(v, x) == Vec([i \in 1..Len(v) |-> RMax(RSub(v[i], x), Zero)])


(***************************************************************************)
(* misc.py: projection_simplex_bisection(v, z=1, tau=1e-6, max_iter=1000)  *)
(***************************************************************************)
\* the defaults of the signature
DefaultTau == <<1, 1000000>>

DefaultMaxIter == 1000

\* func = lambda x: np.sum(np.maximum(v - x, 0)) - z
Func(v, z, x) == RSub(VSum(ClipBelow(v, x)), z)

\* The locals before the loop.  midpoint is not bound yet: bound = FALSE.
ProjEnter(v, z) ==
  [lower    |-> RSub(VMin(v), RDiv(z, R(Len(v)))),
   upper    |-> VMax(v),
   midpoint |-> Zero,
   bound    |-> FALSE,
   it       |-> 0,
   brk      |-> FALSE]

\* a faulty variant of BisectUpdate: value <= tau for abs(value) <= tau
BisectUpdateNoAbs(s, mid, value, tau) ==
  IF RLeq(value, tau)
    THEN [s EXCEPT !.midpoint = mid, !.bound = TRUE, !.it = @ + 1,
                   !.brk = TRUE]
  ELSE   [s EXCEPT !.midpoint = mid, !.bound = TRUE, !.it = @ + 1,
                   !.lower = mid]

\* if abs(value) <= tau: break
\* if value <= 0: upper = midpoint  else: lower = midpoint
BisectUpdate(s, mid, value, tau) ==
  IF RLeq(RAbs(value), tau)
    THEN [s EXCEPT !.midpoint = mid, !.bound = TRUE, !.it = @ + 1,
                   !.brk = TRUE]
  ELSE IF RLeq(value, Zero)
    THEN [s EXCEPT !.midpoint = mid, !.bound = TRUE, !.it = @ + 1,
                   !.upper = mid]
  ELSE   [s EXCEPT !.midpoint = mid, !.bound = TRUE, !.it = @ + 1,
                   !.lower = mid]

\* value = func(midpoint)
BisectAt(v, z, tau, s, mid) == BisectUpdate(s, mid, Func(v, z, mid), tau)

\* One pass of the loop body: midpoint = (upper + lower) / 2.0, ...
BisectStep(v, z, tau, s) ==
  BisectAt(v, z, tau, s, RDiv(RAdd(s.upper, s.lower), R(2)))

\* for it in range(max_iter): ... break
LoopRuns(s, max_iter) == ~s.brk /\ s.it < max_iter

RECURSIVE BisectLoop(_, _, _, _, _)
BisectLoop(v, z, tau, max_iter, s) ==
  IF LoopRuns(s, max_iter)
    THEN BisectLoop(v, z, tau, max_iter, BisectStep(v, z, tau, s))
    ELSE s

\* return np.maximum(v - midpoint, 0); reading the unbound local midpoint
\* raises UnboundLocalError
ProjReturnValue(v, s) ==
  IF s.bound THEN [ok |-> TRUE, p |-> ClipBelow(v, s.midpoint)]
             ELSE [ok |-> FALSE, p |-> <<>>]

projection_simplex_bisection(v, z, tau, max_iter) ==
  ProjReturnValue(v, BisectLoop(v, z, tau, max_iter, ProjEnter(v, z)))

(***************************************************************************)
(* MOCB.py: the weights, GGI and its gradient                              *)
(* A matrix is the sequence of its rows.  K, D, M are self.K, self.D,      *)
(* self.M.                                                                 *)
(***************************************************************************)
\* self.w = np.power(2, np.linspace(0, -D+1, num=D)):  w[d] = 2^(-(d-1))
Weights(D) == Vec([d \in 1..D |-> <<1, Pow2(d - 1)>>])

\* Theta.T.dot(x): the D-vector whose d-th entry is sum_m Theta[m][d] * x[m]
ThetaTDot(D, Theta, x) ==
  Vec([d \in 1..D |-> VSum(Vec([m \in 1..Len(x) |-> RMul(Theta[m][d], x[m])]))])

\* x = np.zeros(D); for k in range(K): x += alpha[k] * Theta.T.dot(X[k])
RECURSIVE AggregateUpTo(_, _, _, _, _)
AggregateUpTo(k, D, alpha, Theta, X) ==
  IF k = 0 THEN Vec([d \in 1..D |-> Zero])
  ELSE VAdd(AggregateUpTo(k - 1, D, alpha, Theta, X),
            VScale(alpha[k], ThetaTDot(D, Theta, X[k])))

Aggregate(K, D, alpha, Theta, X) == AggregateUpTo(K, D, alpha, Theta, X)

\* np.sort: ascending, here by insertion
RECURSIVE InsertSorted(_, _)
InsertSorted(a, s) ==
  IF s = <<>> THEN <<a>>
  ELSE IF RLess(Head(s), a) THEN <<Head(s)>> \o InsertSorted(a, Tail(s))
  ELSE <<a>> \o s

RECURSIVE Sort(_)
Sort(x) == IF x = <<>> THEN <<>> ELSE InsertSorted(Head(x), Sort(Tail(x)))

\* The orders np.argsort(x) may return: the permutations of the indices
\* that put x in ascending order.  Which one it returns on equal entries is
\* left open by the default (unstable) sort kind.
IsPerm(p, n) == /\ Len(p) = n
                /\ \A i \in 1..n : \E j \in 1..n : p[j] = i

ArgSorts(x) ==
  {p \in [1..Len(x) -> 1..Len(x)] :
     /\ IsPerm(p, Len(x))
     /\ \A i \in 1..(Len(x) - 1) : RLeq(x[p[i]], x[p[i + 1]])}

\* The order numpy returns in practice for these short arrays (insertion
\* sort, which is stable): among equal entries the lower index first.
ArgSort(x) ==
  CHOOSE p \in ArgSorts(x) :
    \A i \in 1..(Len(x) - 1) : x[p[i]] = x[p[i + 1]] => p[i] < p[i + 1]

\* a faulty variant of Reorder: temp for temp[order]
ReorderIdentity(temp, order) == temp

\* temp[order]
Reorder(temp, order) == Vec([d \in 1..Len(order) |-> temp[order[d]]])

\* GGI(alpha, Theta, X): np.sort(x).dot(self.w)
GGI(K, D, alpha, Theta, X) ==
  VDot(Sort(Aggregate(K, D, alpha, Theta, X)), Weights(D))

\* the second loop of grad: gradient[k] = self.w.dot(temp[order])
GradWith(order, K, D, Theta_hat, X) ==
  Vec([k \in 1..K |->
         VDot(Weights(D), Reorder(ThetaTDot(D, Theta_hat, X[k]), order))])

\* grad(alpha, Theta_hat, X)
Grad(K, D, alpha, Theta_hat, X) ==
  GradWith(ArgSort(Aggregate(K, D, alpha, Theta_hat, X)), K, D, Theta_hat, X)

(***************************************************************************)
(* MOCB.py: the two ascent schemes                                         *)
(***************************************************************************)
\* np.exp.  e^y is irrational; the model computes a rational stand-in with
\* the properties of exp the program relies on: positive, strictly
\* increasing, Exp(0) = 1 and Exp(-y) = 1 / Exp(y).
Exp(y) == IF RLess(y, Zero) THEN RInv(RSub(One, y)) ELSE RAdd(One, y)

\* temp = np.multiply(alpha, np.exp(self.eta * grad))
MirrorWeights(K, eta, alpha, g) ==
  Vec([k \in 1..K |-> RMul(alpha[k], Exp(RMul(eta, g[k])))])

\* temp / tot
DivideBy(temp, tot) == Vec([k \in 1..Len(temp) |-> RDiv(temp[k], tot)])

\* a faulty variant of Normalize: the division by the sum left out
NormalizeSkipped(temp) == temp

\* alpha = temp / np.sum(temp)
Normalize(temp) == DivideBy(temp, VSum(temp))

\* one pass of the loop of mirror_descent
MirrorStep(K, D, eta, alpha, Theta_hat, X) ==
  Normalize(MirrorWeights(K, eta, alpha, Grad(K, D, alpha, Theta_hat, X)))

\* mirror_descent(alpha, Theta_hat, X): for i in range(self.I)
RECURSIVE mirror_descent(_, _, _, _, _, _, _)
mirror_descent(I, K, D, eta, alpha, Theta_hat, X) ==
  IF I <= 0 THEN alpha
  ELSE mirror_descent(I - 1, K, D, eta,
                      MirrorStep(K, D, eta, alpha, Theta_hat, X), Theta_hat, X)

\* a faulty variant of GradStep: the projection left out
GradStepUnprojected(K, D, eta, alpha, Theta_hat, X) ==
  VAdd(alpha, VScale(eta, Grad(K, D, alpha, Theta_hat, X)))

\* one pass of the loop of grad_descent:
\*   alpha = projection_simplex_bisection(alpha + self.eta * self.grad(...))
GradStep(K, D, eta, alpha, Theta_hat, X) ==
  projection_simplex_bisection(
      VAdd(alpha, VScale(eta, Grad(K, D, alpha, Theta_hat, X))),
      One, DefaultTau, DefaultMaxIter).p

\* grad_descent(alpha, Theta_hat, X): for i in range(self.I)
RECURSIVE grad_descent(_, _, _, _, _, _, _)
grad_descent(I, K, D, eta, alpha, Theta_hat, X) ==
  IF I <= 0 THEN alpha
  ELSE grad_descent(I - 1, K, D, eta,
                    GradStep(K, D, eta, alpha, Theta_hat, X), Theta_hat, X)

(***************************************************************************)
(* MOCB.py: the statistics of gaussian_test                                *)
(***************************************************************************)
\* a faulty variant of InitA: lam * np.ones((M, M)) for lam * np.identity(M)
InitAOnes(M, lam) == Vec([i \in 1..M |-> Vec([j \in 1..M |-> lam])])

\* A = self.lam * np.identity(self.M)
InitA(M, lam) ==
  Vec([i \in 1..M |-> Vec([j \in 1..M |-> IF i = j THEN lam ELSE Zero])])

\* B = np.zeros((self.M, self.D))
InitB(M, D) == Vec([i \in 1..M |-> Vec([d \in 1..D |-> Zero])])

\* alpha = 1 / self.K * np.ones(self.K)
InitAlpha(K) == Vec([k \in 1..K |-> <<1, K>>])

\* the matrix without row i and column j
Minor(A, i, j) ==
  Vec([p \in 1..(Len(A) - 1) |->
         Vec([q \in 1..(Len(A) - 1) |->
                A[IF p < i THEN p ELSE p + 1][IF q < j THEN q ELSE q + 1]])])

Sign(n) == IF n % 2 = 0 THEN One ELSE RNeg(One)

\* the determinant, expanded along the first row
RECURSIVE Det(_)
Det(A) ==
  IF Len(A) = 0 THEN One
  ELSE VSum(Vec([j \in 1..Len(A) |->
                   RMul(RMul(Sign(1 + j), A[1][j]), Det(Minor(A, 1, j)))]))

\* the inverse of A, whose determinant is det: the adjugate over det
InverseBy(A, det) ==
  Vec([i \in 1..Len(A) |->
         Vec([j \in 1..Len(A) |->
                RDiv(RMul(Sign(i + j), Det(Minor(A, j, i))), det)])])

\* np.linalg.inv(A), for a non-singular A
Inverse(A) == InverseBy(A, Det(A))

\* P.dot(Q) for an M x M matrix P and an M x D matrix Q
MatMul(P, Q, D) ==
  Vec([i \in 1..Len(P) |->
         Vec([d \in 1..D |->
                VSum(Vec([m \in 1..Len(P) |-> RMul(P[i][m], Q[m][d])]))])])

\* Theta_hat = np.linalg.inv(A).dot(B)
Estimate(A, B, D) == MatMul(Inverse(A), B, D)

\* np.argmax(alpha): the first index that holds the maximum
\* a faulty variant of Better: >= for >, so that the last maximum wins
BetterOrEqual(alpha, b, n) == IF RLeq(alpha[b], alpha[n]) THEN n ELSE b

\* the index kept when entry n is compared with the best index b so far
Better(alpha, b, n) == IF RLess(alpha[b], alpha[n]) THEN n ELSE b

RECURSIVE ArgMaxUpTo(_, _)
ArgMaxUpTo(alpha, n) ==
  IF n = 1 THEN 1 ELSE Better(alpha, ArgMaxUpTo(alpha, n - 1), n)

ArgMax(alpha) == ArgMaxUpTo(alpha, Len(alpha))

\* A += X[k].dot(X[k].T).  X[k] is one-dimensional, so X[k].T is X[k] and
\* the product is the scalar X[k] . X[k], which += adds to every entry of A.
AddScalar(A, s) ==
  Vec([i \in 1..Len(A) |-> Vec([j \in 1..Len(A) |-> RAdd(A[i][j], s)])])

UpdateA(A, x) == AddScalar(A, VDot(x, x))

\* B += X[k].reshape(self.M, 1).dot(r.reshape(1, self.D))
UpdateB(B, x, r) ==
  Vec([i \in 1..Len(B) |->
         Vec([d \in 1..Len(r) |-> RAdd(B[i][d], RMul(x[i], r[d]))])])

(***************************************************************************)
(* float64 results that need not be finite: the running metric             *)
(***************************************************************************)
Fin(a) == [kind |-> "fin", val |-> a]

PInf == [kind |-> "inf", val |-> Zero]

NInf == [kind |-> "-inf", val |-> Zero]

NaN == [kind |-> "nan", val |-> Zero]

\* a / t in float64: division by zero gives inf, -inf or nan (and a
\* RuntimeWarning), not an exception
ExtDiv(a, t) ==
  IF t # 0 THEN Fin(RDiv(a, R(t)))
  ELSE IF RLess(Zero, a) THEN PInf
  ELSE IF RLess(a, Zero) THEN NInf
  ELSE NaN

Rank(e) == CASE e.kind = "-inf" -> 0
             [] e.kind = "fin"  -> 1
             [] e.kind = "inf"  -> 2
             [] e.kind = "nan"  -> 3

\* the order of np.sort: nan last
ExtLess(a, b) ==
  IF a.kind = "fin" /\ b.kind = "fin" THEN RLess(a.val, b.val)
  ELSE Rank(a) < Rank(b)

RECURSIVE ExtInsertSorted(_, _)
ExtInsertSorted(a, s) ==
  IF s = <<>> THEN <<a>>
  ELSE IF ExtLess(Head(s), a) THEN <<Head(s)>> \o ExtInsertSorted(a, Tail(s))
  ELSE <<a>> \o s

RECURSIVE ExtSort(_)
ExtSort(x) ==
  IF x = <<>> THEN <<>> ELSE ExtInsertSorted(Head(x), ExtSort(Tail(x)))

\* e * c for a finite c > 0
ExtScale(e, c) == IF e.kind = "fin" THEN Fin(RMul(e.val, c)) ELSE e

ExtAdd(a, b) ==
  IF a.kind = "nan" \/ b.kind = "nan" THEN NaN
  ELSE IF a.kind = "fin" /\ b.kind = "fin" THEN Fin(RAdd(a.val, b.val))
  ELSE IF a.kind = "fin" THEN b
  ELSE IF b.kind = "fin" THEN a
  ELSE IF a.kind = b.kind THEN a
  ELSE NaN

RECURSIVE ExtDot(_, _)
ExtDot(x, w) ==
  IF x = <<>> THEN Fin(Zero)
  ELSE ExtAdd(ExtScale(Head(x), Head(w)), ExtDot(Tail(x), Tail(w)))

\* GGI_list[t] = np.sort(r_ave / t).dot(self.w)
Metric(r_ave, t, w) ==
  ExtDot(ExtSort(Vec([d \in 1..Len(r_ave) |-> ExtDiv(r_ave[d], t)])), w)

(***************************************************************************)
(* State                                                                   *)
(***************************************************************************)
VARIABLES
  \* a call of projection_simplex_bisection, statement by statement
  pv, pz, ptau, pmax_iter,   \* the arguments
  ps,                        \* the locals lower, upper, midpoint, it
  ppc,                       \* "idle", "call", "loop", "returned", "raised"
  pout,                      \* the returned vector
  \* a call of GGI and a call of grad on the same arguments
  gK, gD, galpha, gTheta, gX,   \* self.K, self.D and the arguments
  gval,                      \* what GGI returned
  ggrad,                     \* what grad returned
  gpc,                       \* the calls that have returned: a set
  \* a call of grad_descent or mirror_descent, pass by pass
  aK, aD, aeta, aI,          \* self.K, self.D, self.eta, self.I
  ascheme,                   \* "grad" or "mirror": the method called
  aTheta, aX,                \* the arguments Theta_hat and X
  aalpha,                    \* the local alpha
  ai,                        \* passes of the loop done
  apc,                       \* "idle", "loop", "returned"
  \* an MOCB object and its gaussian_test
  cfg,                       \* self.K, D, M, T, lam, eta, I
  w,                         \* self.w
  A, B,                      \* the statistics
  X,                         \* the features of the round
  Theta_hat,                 \* the estimate of the round
  alpha,                     \* the arm weights
  k,                         \* the arm played
  r,                         \* the reward observed
  r_ave,                     \* the sum of the rewards
  GGI_list,                  \* the reported series
  t,                         \* rounds done (the index of the next round)
  pc,                        \* "idle", "new", "constructed", "loop",
                             \* "done", "raised"
  err                        \* the exception raised, or "none"

pvars == <<pv, pz, ptau, pmax_iter, ps, ppc, pout>>

gvars == <<gK, gD, galpha, gTheta, gX, gval, ggrad, gpc>>

avars == <<aK, aD, aeta, aI, ascheme, aTheta, aX, aalpha, ai, apc>>

bvars == <<cfg, w, A, B, X, Theta_hat, alpha, k, r, r_ave, GGI_list, t, pc,
           err>>

vars == <<pvars, gvars, avars, bvars>>

\* the parts of the state a specification does not use
PIdle ==
  /\ pv = <<>> /\ pz = One /\ ptau = DefaultTau /\ pmax_iter = 0
  /\ ps = [lower |-> Zero, upper |-> Zero, midpoint |-> Zero,
           bound |-> FALSE, it |-> 0, brk |-> FALSE]
  /\ ppc = "idle" /\ pout = <<>>

GIdle ==
  /\ gK = 0 /\ gD = 0 /\ galpha = <<>> /\ gTheta = <<>> /\ gX = <<>>
  /\ gval = Zero /\ ggrad = <<>> /\ gpc = {}

AIdle ==
  /\ aK = 0 /\ aD = 0 /\ aeta = One /\ aI = 0 /\ ascheme = "mirror"
  /\ aTheta = <<>> /\ aX = <<>> /\ aalpha = <<>> /\ ai = 0 /\ apc = "idle"

BIdle ==
  /\ cfg = [K |-> 0, D |-> 0, M |-> 0, T |-> 0, lam |-> One, eta |-> One,
            I |-> 0]
  /\ w = <<>> /\ A = <<>> /\ B = <<>> /\ X = <<>> /\ Theta_hat = <<>>
  /\ alpha = <<>> /\ k = 0 /\ r = <<>> /\ r_ave = <<>> /\ GGI_list = <<>>
  /\ t = 0 /\ pc = "idle" /\ err = "none"

(***************************************************************************)
(* Bounds of the explored inputs                                           *)
(***************************************************************************)
\* projection: length of v and size of its entries
MaxLen == 2

MaxVal == 2

\* GGI and grad: number of objectives
MaxD == 2

\* ascent: passes of the loop
MaxI == 2

\* gaussian_test: rounds
MaxT == 2

RECURSIVE IntVecs(_, _)
IntVecs(n, S) ==
  IF n = 0 THEN {<<>>}
  ELSE {Append(u, R(x)) : u \in IntVecs(n - 1, S), x \in S}

\* the rows x columns matrices with entries in S
RECURSIVE IntMats(_, _, _)
IntMats(rows, cols, S) ==
  IF rows = 0 THEN {<<>>}
  ELSE {Append(m, u) : m \in IntMats(rows - 1, cols, S), u \in IntVecs(cols, S)}

ProjInputs == UNION {IntVecs(n, -MaxVal..MaxVal) : n \in 1..MaxLen}

ZVals == {R(1), R(2), <<1, 2>>}

TauVals == {DefaultTau, <<1, 4>>}

MaxIterVals == {0, 1, 3, DefaultMaxIter}

(***************************************************************************)
(* Specification of one projection call                                    *)
(***************************************************************************)
ProjInit ==
  /\ pv \in ProjInputs
  /\ pz \in ZVals
  /\ ptau \in TauVals
  /\ pmax_iter \in MaxIterVals
  /\ ps = [lower |-> Zero, upper |-> Zero, midpoint |-> Zero,
           bound |-> FALSE, it |-> 0, brk |-> FALSE]
  /\ ppc = "call"
  /\ pout = <<>>
  /\ GIdle /\ AIdle /\ BIdle

\* lines 15-17
ProjCall ==
  /\ ppc = "call"
  /\ ps' = ProjEnter(pv, pz)
  /\ ppc' = "loop"
  /\ UNCHANGED <<pv, pz, ptau, pmax_iter, pout, gvars, avars, bvars>>

\* lines 19-29, one pass
ProjIter ==
  /\ ppc = "loop"
  /\ LoopRuns(ps, pmax_iter)
  /\ ps' = BisectStep(pv, pz, ptau, ps)
  /\ UNCHANGED <<pv, pz, ptau, pmax_iter, ppc, pout, gvars, avars, bvars>>

\* line 31
ProjReturn ==
  /\ ppc = "loop"
  /\ ~LoopRuns(ps, pmax_iter)
  /\ \E res \in {ProjReturnValue(pv, ps)} :
       /\ ppc' = IF res.ok THEN "returned" ELSE "raised"
       /\ pout' = res.p
  /\ UNCHANGED <<pv, pz, ptau, pmax_iter, ps, gvars, avars, bvars>>

ProjNext == ProjCall \/ ProjIter \/ ProjReturn

SpecProj == ProjInit /\ [][ProjNext]_vars

(***************************************************************************)
(* Claims about projection_simplex_bisection (checked under SpecProj)      *)
(***************************************************************************)
\* C5: called with the default max_iter, for every v and every z > 0 the
\* returned p sums to z within the tolerance and has no negative entry.
C5_ProjectionOnSimplex ==
  (ppc = "returned" /\ pmax_iter = DefaultMaxIter /\ RLess(Zero, pz)) =>
     /\ RLeq(RAbs(RSub(VSum(pout), pz)), ptau)
     /\ \A i \in 1..Len(pout) : RLeq(Zero, pout[i])

\* a call with the default tolerance that needed many bisection steps and
\* returned a point with a zero and a positive entry
C5_Witness ==
  /\ ppc = "returned" /\ pmax_iter = DefaultMaxIter /\ ptau = DefaultTau
  /\ ps.it > 10
  /\ \E i, j \in 1..Len(pout) : pout[i] = Zero /\ RLess(Zero, pout[j])

\* C6: the call has no error outcome, performs at most max_iter bisection
\* steps and returns max(v - tau_final, 0), whatever v, z, tolerance and
\* max_iterations are.
C6_NoErrorOutcome ==
  /\ ppc # "raised"
  /\ ps.it <= pmax_iter
  /\ ppc = "returned" => pout = ClipBelow(pv, ps.midpoint)

(***************************************************************************)
(* Specification of a call of GGI and a call of grad on the same arguments *)
(***************************************************************************)
GKVals == {1, 2}

GMVals == {1, 2}

GAlphaVals == {R(-1), Zero, <<1, 2>>, One}

GThetaVals == {-1, 1}

GXVals == {0, 1}

RECURSIVE VecsOver(_, _)
VecsOver(n, S) ==
  IF n = 0 THEN {<<>>} ELSE {Append(u, x) : u \in VecsOver(n - 1, S), x \in S}

GInit ==
  /\ gK \in GKVals
  /\ gD \in 1..MaxD
  /\ galpha \in VecsOver(gK, GAlphaVals)
  /\ \E M \in GMVals :
       /\ gTheta \in IntMats(M, gD, GThetaVals)
       /\ gX \in IntMats(gK, M, GXVals)
  /\ gval = Zero /\ ggrad = <<>> /\ gpc = {}
  /\ PIdle /\ AIdle /\ BIdle

\* GGI(alpha, Theta, X)
CallGGI ==
  /\ "GGI" \notin gpc
  /\ gval' = GGI(gK, gD, galpha, gTheta, gX)
  /\ gpc' = gpc \cup {"GGI"}
  /\ UNCHANGED <<gK, gD, galpha, gTheta, gX, ggrad, pvars, avars, bvars>>

\* grad(alpha, Theta, X), with any of the orders np.argsort may return
CallGrad ==
  /\ "grad" \notin gpc
  /\ \E x \in {Aggregate(gK, gD, galpha, gTheta, gX)} :
       \E order \in ArgSorts(x) :
         ggrad' = GradWith(order, gK, gD, gTheta, gX)
  /\ gpc' = gpc \cup {"grad"}
  /\ UNCHANGED <<gK, gD, galpha, gTheta, gX, gval, pvars, avars, bvars>>

GNext == CallGGI \/ CallGrad

SpecGGI == GInit /\ [][GNext]_vars

(***************************************************************************)
(* Claims about GGI and grad (checked under SpecGGI)                       *)
(***************************************************************************)
\* C10: for the same arguments the value is the alpha-weighted sum of the
\* gradient, GGI(alpha, Theta, X) = sum_k alpha[k] * grad(alpha, Theta, X)[k],
\* whichever order argsort returns on equal coordinates of x.
C10_ValueIsAlphaDotGradient ==
  gpc = {"GGI", "grad"} => gval = VDot(galpha, ggrad)

\* both calls returned, the aggregate x was not in ascending order and had
\* no tie, and the value is not zero
C10_Witness ==
  /\ gpc = {"GGI", "grad"}
  /\ gD >= 2
  /\ LET x == Aggregate(gK, gD, galpha, gTheta, gX) IN RLess(x[2], x[1])
  /\ gval # Zero

\* the same with a tie in x
C10_TieWitness ==
  /\ gpc = {"GGI", "grad"}
  /\ gD >= 2
  /\ LET x == Aggregate(gK, gD, galpha, gTheta, gX) IN x[1] = x[2]
  /\ \E i, j \in 1..gK : ggrad[i] # ggrad[j]

(***************************************************************************)
(* Specification of one call of an ascent scheme                           *)
(* grad_descent is explored with K = 1 only: with more arms a second pass  *)
(* bisects between numbers whose exact denominators no longer fit TLC's    *)
(* integers.                                                               *)
(***************************************************************************)
AKVals == {1, 2}

ADVals == {1, 2}

AMVals == {2}

AEtaVals == {<<1, 2>>, R(2)}

AThetaVals == {-1, 1}

AXVals == {0, 1}

\* the points of the probability simplex with entries in quarters
SimplexPoints(K) ==
  {a \in VecsOver(K, {Zero, <<1, 4>>, <<1, 2>>, <<3, 4>>, One}) : VSum(a) = One}

OnSimplex(a) == /\ VSum(a) = One
                /\ \A i \in 1..Len(a) : RLeq(Zero, a[i])

AInit ==
  /\ ascheme \in {"grad", "mirror"}
  /\ aK \in (IF ascheme = "grad" THEN {1} ELSE AKVals)
  /\ aD \in ADVals
  /\ aeta \in AEtaVals
  /\ aI \in 0..MaxI
  /\ \E M \in AMVals :
       /\ aTheta \in IntMats(M, aD, AThetaVals)
       /\ aX \in IntMats(aK, M, AXVals)
  /\ aalpha \in SimplexPoints(aK)
  /\ ai = 0
  /\ apc = "loop"
  /\ PIdle /\ GIdle /\ BIdle

\* mirror_descent, one pass of its loop
MirrorPass ==
  /\ apc = "loop" /\ ascheme = "mirror" /\ ai < aI
  /\ aalpha' = MirrorStep(aK, aD, aeta, aalpha, aTheta, aX)
  /\ ai' = ai + 1
  /\ UNCHANGED <<aK, aD, aeta, aI, ascheme, aTheta, aX, apc, pvars, gvars,
                 bvars>>

\* grad_descent, one pass of its loop
GradPass ==
  /\ apc = "loop" /\ ascheme = "grad" /\ ai < aI
  /\ aalpha' = GradStep(aK, aD, aeta, aalpha, aTheta, aX)
  /\ ai' = ai + 1
  /\ UNCHANGED <<aK, aD, aeta, aI, ascheme, aTheta, aX, apc, pvars, gvars,
                 bvars>>

\* return alpha
AscentReturn ==
  /\ apc = "loop" /\ ai >= aI
  /\ apc' = "returned"
  /\ UNCHANGED <<aK, aD, aeta, aI, ascheme, aTheta, aX, aalpha, ai, pvars,
                 gvars, bvars>>

ANext == MirrorPass \/ GradPass \/ AscentReturn

SpecAscent == AInit /\ [][ANext]_vars

Nominal ==
  [K |-> 2, D |-> 2, M |-> 2, T |-> MaxT, lam |-> One, eta |-> One, I |-> 1]

KVals == {-1, 0, 1, 2}

DVals == {-1, 0, 1, 2}

MVals == {-1, 0, 1, 2}

TVals == (-1)..MaxT

LamVals == {R(-1), Zero, <<1, 2>>, One}

EtaVals == {One}

IVals == {0, 1, 2}

Fields == {"K", "D", "M", "T", "lam", "eta", "I"}

\* the configurations that differ from the nominal one in at most one
\* parameter
Configs ==
  {c \in [K : KVals, D : DVals, M : MVals, T : TVals, lam : LamVals,
          eta : EtaVals, I : IVals] :
     Cardinality({f \in Fields : c[f] # Nominal[f]}) <= 1}

\* the feature vectors drawn: the 0/1 vectors other than 0
FeatureVecs(M) == IntVecs(M, {0, 1}) \ {Vec([m \in 1..M |-> Zero])}

\* X[k] for every arm k
FeatureSets(K, M) == VecsOver(K, FeatureVecs(M))

RVals == {-1, 1}

Init ==
  /\ cfg \in Configs
  /\ w = <<>> /\ A = <<>> /\ B = <<>> /\ X = <<>> /\ Theta_hat = <<>>
  /\ alpha = <<>> /\ k = 0 /\ r = <<>> /\ r_ave = <<>> /\ GGI_list = <<>>
  /\ t = 0 /\ pc = "new" /\ err = "none"
  /\ PIdle /\ GIdle /\ AIdle

\* MOCB.__init__: np.linspace(0, -D+1, num=D) raises ValueError for D < 0
Construct ==
  /\ pc = "new"
  /\ IF cfg.D < 0
       THEN /\ pc' = "raised" /\ err' = "ValueError"
            /\ UNCHANGED w
       ELSE /\ pc' = "constructed" /\ w' = Weights(cfg.D)
            /\ UNCHANGED err
  /\ UNCHANGED <<cfg, A, B, X, Theta_hat, alpha, k, r, r_ave, GGI_list, t,
                 pvars, gvars, avars>>

\* gaussian_test, lines 82-89.  np.identity(M) raises ValueError for M < 0;
\* 1 / self.K raises ZeroDivisionError for K = 0; np.ones(K) raises
\* ValueError for K < 0.  [0] * T is empty for T <= 0.
Setup ==
  /\ pc = "constructed"
  /\ IF cfg.M < 0 \/ cfg.K <= 0
       THEN /\ pc' = "raised"
            /\ err' = IF cfg.M >= 0 /\ cfg.K = 0 THEN "ZeroDivisionError"
                      ELSE "ValueError"
            /\ UNCHANGED <<A, B, alpha, r_ave, GGI_list>>
       ELSE /\ A' = InitA(cfg.M, cfg.lam)
            /\ B' = InitB(cfg.M, cfg.D)
            /\ GGI_list' = Vec([i \in 1..cfg.T |-> Fin(Zero)])
            /\ alpha' = InitAlpha(cfg.K)
            /\ r_ave' = Vec([d \in 1..cfg.D |-> Zero])
            /\ pc' = "loop"
            /\ UNCHANGED err
  /\ UNCHANGED <<cfg, w, X, Theta_hat, k, r, t, pvars, gvars, avars>>

\* one pass of the loop of gaussian_test, lines 90-110, that raises nothing
Round ==
  /\ pc = "loop" /\ t < cfg.T
  /\ cfg.M > 0 /\ Det(A) # Zero
  /\ \E Xn \in FeatureSets(cfg.K, cfg.M), rn \in IntVecs(cfg.D, RVals) :
       \* line 91
       \E th \in {Estimate(A, B, cfg.D)} :
       \* line 96
       \E al \in {mirror_descent(cfg.I, cfg.K, cfg.D, cfg.eta, alpha, th, Xn)} :
       \* line 98
       \E ks \in {ArgMax(al)} :
       \* line 102
       \E ra \in {VAdd(r_ave, rn)} :
           /\ Theta_hat' = th
           /\ X' = Xn
           /\ alpha' = al
           /\ k' = ks
           /\ r' = rn
           /\ r_ave' = ra
           /\ A' = UpdateA(A, Xn[ks])
           /\ B' = UpdateB(B, Xn[ks], rn)
           /\ GGI_list' = [GGI_list EXCEPT ![t + 1] = Metric(ra, t, w)]
  /\ t' = t + 1
  /\ UNCHANGED <<cfg, w, pc, err, pvars, gvars, avars>>

\* a pass that raises: np.linalg.inv(A) raises LinAlgError for a singular
\* A (line 91); 1 / self.M raises ZeroDivisionError for M = 0 (line 94)
RoundRaises ==
  /\ pc = "loop" /\ t < cfg.T
  /\ cfg.M = 0 \/ Det(A) = Zero
  /\ pc' = "raised"
  /\ err' = IF cfg.M = 0 THEN "ZeroDivisionError" ELSE "LinAlgError"
  /\ UNCHANGED <<cfg, w, A, B, X, Theta_hat, alpha, k, r, r_ave, GGI_list, t,
                 pvars, gvars, avars>>

\* the loop is over: lines 113-114 plot GGI_list
Finish ==
  /\ pc = "loop" /\ t >= cfg.T
  /\ pc' = "done"
  /\ UNCHANGED <<cfg, w, A, B, X, Theta_hat, alpha, k, r, r_ave, GGI_list, t,
                 err, pvars, gvars, avars>>

Next == Construct \/ Setup \/ Round \/ RoundRaises \/ Finish

Spec == Init /\ [][Next]_vars

(***************************************************************************)
(* Claims about gaussian_test (checked under Spec)                         *)
(***************************************************************************)
Positive(n) == n > 0

ValidConfig(c) ==
  /\ Positive(c.K) /\ Positive(c.D) /\ Positive(c.M) /\ Positive(c.T)
  /\ RLess(Zero, c.lam) /\ Positive(c.I)

\* x y^T
Outer(x, y) ==
  Vec([i \in 1..Len(x) |-> Vec([j \in 1..Len(y) |-> RMul(x[i], y[j])])])

MatAdd(P, Q) ==
  Vec([i \in 1..Len(P) |-> Vec([j \in 1..Len(P[i]) |-> RAdd(P[i][j], Q[i][j])])])

\* C1: no entry of the reported series is the result of dividing r_ave by
\* t = 0 (in float64 such a result is inf, -inf or nan): every entry is a
\* finite number.
C1_MetricNeverDividesByZero ==
  pc \in {"loop", "done"} =>
    \A i \in 1..Len(GGI_list) : GGI_list[i].kind = "fin"

\* C2: a round adds the outer product x x^T of the played arm's features
\* to A and the outer product x r^T to B.
C2_UpdateAddsOuterProducts ==
  [][(pc = "loop" /\ t' = t + 1) =>
        /\ A' = MatAdd(A, Outer(X'[k'], X'[k']))
        /\ B' = MatAdd(B, Outer(X'[k'], r'))]_vars

\* the square matrix of the first n rows and columns
Leading(P, n) == Vec([i \in 1..n |-> SubSeq(P[i], 1, n)])

Symmetric(P) == \A i, j \in 1..Len(P) : P[i][j] = P[j][i]

\* Sylvester's criterion
PositiveDefinite(P) == \A n \in 1..Len(P) : RLess(Zero, Det(Leading(P, n)))

\* C3: with lam > 0, A is symmetric and positive-definite after the
\* initialisation and after every round, and no round fails to invert it.
C3_ASymmetricPositiveDefinite ==
  RLess(Zero, cfg.lam) =>
    /\ err # "LinAlgError"
    /\ pc \in {"loop", "done"} => Symmetric(A) /\ PositiveDefinite(A)

\* two rounds done with lam = 1/2 and two features
C3_Witness ==
  /\ cfg.lam = <<1, 2>> /\ cfg.M = 2 /\ t = 2
  /\ A[1][2] # Zero
  /\ Symmetric(A) /\ PositiveDefinite(A)

\* C8: a configuration with a non-positive K, D, M, T, lam or I is rejected
\* at setup: the loop is never entered, no round executes and the run does
\* not complete.
C8_InvalidConfigRejected ==
  ~ValidConfig(cfg) => pc \notin {"loop", "done"} /\ t = 0

\* the first index that holds the maximum of a
LowestArgMax(a) ==
  CHOOSE i \in 1..Len(a) :
    /\ \A j \in 1..Len(a) : RLeq(a[j], a[i])
    /\ \A j \in 1..(i - 1) : RLess(a[j], a[i])

\* C9: A and B change only in a round, once per round, and by the features
\* and the reward of the arm played alone, which is the lowest index among
\* the arms of maximal alpha.
C9_OneUpdatePerRoundByPlayedArm ==
  [][(pc = "loop" /\ (A' # A \/ B' # B \/ t' # t)) =>
        /\ t' = t + 1
        /\ k' = LowestArgMax(alpha')
        /\ A' = UpdateA(A, X'[LowestArgMax(alpha')])
        /\ B' = UpdateB(B, X'[LowestArgMax(alpha')], r')]_vars

\* a second round in which the second arm had the larger weight and was
\* played, its features differing from the first arm's
C9_Witness ==
  /\ pc = "loop" /\ t = 2 /\ cfg.K = 2 /\ k = 2
  /\ RLess(alpha[1], alpha[2])
  /\ X[1] # X[2]

=============================================================================
